---------------------------- MODULE Spec2Model ----------------------------
(***************************************************************************)
(* A model of src/main.py: the excerpt selector get_random_chapter, the    *)
(* retrying publisher post_to_facebook and the request handler create_post *)
(* (POST /post).                                                           *)
(*                                                                         *)
(* Text is a sequence of one-character strings.  Three specifications      *)
(* share the variables:                                                    *)
(*   SpecSelect   get_random_chapter applied to a database                 *)
(*   SpecPublish  one call of post_to_facebook with arbitrary arguments    *)
(*   Spec         the handler create_post serving requests                 *)
(*                                                                         *)
(* What the code leaves to its libraries is modelled as they behave:       *)
(*   - random.choice picks any element and raises IndexError on an empty   *)
(*     sequence;                                                           *)
(*   - response.json() raises on a body that is not JSON; the error is a   *)
(*     requests.RequestException from requests 2.27 on and a ValueError    *)
(*     before, so the installed version decides whether line 93 catches it;*)
(*   - the web framework validates the handler's return value against      *)
(*     PostResponse after the handler has returned.                        *)
(* post_to_facebook is called with a logger, as create_post calls it.      *)
(* Log records are not part of the state.                                  *)
(***************************************************************************)
EXTENDS Integers, Sequences, FiniteSets, TLC

VARIABLES
    database,        \* the loaded database (line 105): a sequence of books
    full_text,       \* get_random_chapter: local full_text (line 54)
    excerpt,         \* get_random_chapter: local excerpt after lines 57-64
    item,            \* the dict get_random_chapter returned (NoItem before)
    max_retries,     \* post_to_facebook: parameter
    backoff,         \* post_to_facebook: parameter
    attempt,         \* post_to_facebook: loop variable
    outcomes,        \* what the remote end did on each delivery attempt so far
    sleeps,          \* the durations passed to time.sleep so far, in order
    payload,         \* post_to_facebook: the request body (lines 81-83)
    pub,             \* how the call of post_to_facebook ended (NoOutcome before)
    pc,              \* position of the running code
    response,        \* the HTTP response of the request (NoResponse before)
    publisher_calls, \* calls of post_to_facebook made by the current request
    requests_served, \* requests answered so far
    json_error_is_request_exception
                     \* the installed requests library: whether the error of
                     \* response.json() derives from requests.RequestException
                     \* (requests >= 2.27) or is a plain ValueError (older)

vars == <<database, full_text, excerpt, item, max_retries, backoff, attempt,
          outcomes, sleeps, payload, pub, pc, response, publisher_calls,
          requests_served, json_error_is_request_exception>>

selectVars == <<database, full_text, excerpt, item>>
publishVars == <<max_retries, backoff, attempt, outcomes, sleeps, payload, pub>>
handlerVars == <<response, publisher_calls, requests_served>>

None == "None"

\* a Python dict is a set of <<key, value>> pairs with distinct keys
Get(dict, key) ==
    IF \E kv \in dict : kv[1] = key
    THEN (CHOOSE kv \in dict : kv[1] = key)[2]
    ELSE None

-----------------------------------------------------------------------------
(* Bounds of the model *)

\* text inputs take their lengths within Slack of the lengths the code tests
Slack == 1
\* longest freely chosen run of characters inside an input text
MaxTail == 2
\* largest max_retries a direct call of post_to_facebook is given
MaxRetries == 4
\* largest backoff a direct call is given (besides the default)
MaxBackoff == 2
\* requests the handler serves in one behaviour
MaxRequests == 2

-----------------------------------------------------------------------------
(* Program constants *)

ExcerptLimit == 2000
PeriodWindow == 200
DefaultMaxRetries == 3
DefaultBackoff == 5

Ellipsis == <<".", ".", ".">>
Whitespace == {" ", "\n"}
Alphabet == {"a", ".", " ", "\n"}

-----------------------------------------------------------------------------
(* Python string operations, on sequences of characters *)

Min(a, b) == IF a < b THEN a ELSE b

\* s[:n] for n >= 0
Slice(s, n) == SubSeq(s, 1, Min(n, Len(s)))

\* s.rfind(c): the 0-based index of the last occurrence of c, or -1
RFind(s, c) ==
    LET at == {i \in 1..Len(s) : s[i] = c}
    IN  IF at = {} THEN -1
        ELSE (CHOOSE i \in at : \A j \in at : j <= i) - 1

\* s.rstrip(): s without its trailing whitespace
RStrip(s) ==
    LET keep == CHOOSE k \in 0..Len(s) :
                    /\ k = 0 \/ s[k] \notin Whitespace
                    /\ \A j \in (k+1)..Len(s) : s[j] \in Whitespace
    IN  SubSeq(s, 1, keep)

-----------------------------------------------------------------------------
(* get_random_chapter, lines 47-72 *)

\* line 57: excerpt = full_text[:2000]
CandidateUncut(text) == text
Candidate(text) == Slice(text, ExcerptLimit)

\* line 60: last_period != -1 and last_period > len(excerpt) - 200
EndsSentenceAnywhere(cand, last_period) == last_period # -1
EndsSentence(cand, last_period) ==
    last_period # -1 /\ last_period > Len(cand) - PeriodWindow

\* lines 57-64: the excerpt before the suffix
CutExcerpt(text) ==
    LET cand == Candidate(text)
        last_period == RFind(cand, ".")
    IN  IF EndsSentence(cand, last_period)
        THEN Slice(cand, last_period + 1)
        ELSE RStrip(cand)

\* line 70: excerpt + ("..." if len(full_text) > len(excerpt) else "")
SuffixedWhenNotShorter(text, exc) ==
    exc \o (IF Len(text) >= Len(exc) THEN Ellipsis ELSE <<>>)
Suffixed(text, exc) ==
    exc \o (IF Len(text) > Len(exc) THEN Ellipsis ELSE <<>>)

\* lines 48, 52: random.choice raises IndexError on an empty sequence
CanSelect(db) == db # <<>>
HasChapters(book) == DOMAIN book.chapters # {}

\* lines 49-72 for the chosen book and chapter key
ChapterItem(book, chapter_key) ==
    LET chapter == book.chapters[chapter_key]
    IN  [title |-> book.main_title,
         author |-> book.author,
         chapter_name |-> chapter_key,
         text |-> Suffixed(chapter.text, CutExcerpt(chapter.text)),
         link |-> chapter.link]

-----------------------------------------------------------------------------
(* Input texts and databases *)

Fill(n, c) == [i \in 1..n |-> c]

Around(n) == {k \in (n - Slack)..(n + Slack) : k >= 0}

Tails == UNION {[1..n -> Alphabet] : n \in 0..MaxTail}

PrefixLens == {0} \cup Around(ExcerptLimit - PeriodWindow) \cup Around(ExcerptLimit)
SuffixLens == (0..Slack) \cup Around(PeriodWindow - 1)

\* the text may open with a sentence of its own
Heads == {<<>>, <<"a", ".">>}

\* an opening, a run of letters, a free tail, a run of letters
Texts == {h \o Fill(p, "a") \o t \o Fill(s, "a") :
             h \in Heads, p \in PrefixLens, t \in Tails, s \in SuffixLens}

Chapter(text) == [text |-> text, link |-> None]
Book(chapters) == [main_title |-> "T", author |-> "A", chapters |-> chapters]

ShortText == <<"a", ".", " ">>
LongText == Fill(ExcerptLimit + 1, "a")

\* databases on which selection is defined: every book has a chapter
SelectDatabases ==
    {<<Book([k \in {"ch1"} |-> Chapter(t)])>> : t \in Texts}
    \cup {<<Book([k \in {"ch1"} |-> Chapter(ShortText)]),
            Book([k \in {"ch1", "ch2"} |->
                    Chapter(IF k = "ch1" THEN LongText ELSE <<>>)])>>}

-----------------------------------------------------------------------------
(* SpecSelect: get_random_chapter on a database *)

NoItem ==
    [title |-> None, author |-> None, chapter_name |-> None,
     text |-> <<>>, link |-> None]
NoPayload ==
    [message |-> NoItem, published |-> None, access_token |-> None, link |-> {}]
NoOutcome == [kind |-> "none", value |-> None, result |-> {}, exc |-> None, at |-> 0]
NoResponse == [status |-> 0, body |-> {}]

PublishIdle ==
    /\ max_retries = DefaultMaxRetries
    /\ backoff = DefaultBackoff
    /\ attempt = 0
    /\ outcomes = <<>>
    /\ sleeps = <<>>
    /\ payload = NoPayload
    /\ pub = NoOutcome

HandlerIdle ==
    /\ response = NoResponse
    /\ publisher_calls = 0
    /\ requests_served = 0

SelectIdle ==
    /\ full_text = <<>>
    /\ excerpt = <<>>
    /\ item = NoItem

InitSelect ==
    /\ database \in SelectDatabases
    /\ SelectIdle
    /\ PublishIdle
    /\ HandlerIdle
    /\ pc = "select"
    /\ json_error_is_request_exception = TRUE

\* lines 47-72; the primed locals are those of the chosen chapter
get_random_chapter(next_pc) ==
    /\ CanSelect(database)
    /\ \E b \in 1..Len(database) :
         /\ HasChapters(database[b])
         /\ \E chapter_key \in DOMAIN database[b].chapters :
              /\ full_text' = database[b].chapters[chapter_key].text
              /\ excerpt' = CutExcerpt(database[b].chapters[chapter_key].text)
              /\ item' = ChapterItem(database[b], chapter_key)
    /\ pc' = next_pc

SelectCall ==
    /\ pc = "select"
    /\ get_random_chapter("selected")
    /\ UNCHANGED <<database, publishVars, handlerVars,
                   json_error_is_request_exception>>

NextSelect == SelectCall

SpecSelect == InitSelect /\ [][NextSelect]_vars

-----------------------------------------------------------------------------
(* post_to_facebook, lines 76-99 *)

\* What one delivery attempt meets (lines 87-89):
\*   transport_error  requests.post raises (connection error, timeout)
\*   error_status     the remote end answers with a 4xx/5xx status, which
\*                    raise_for_status turns into requests.HTTPError
\*   ok_id            a success status, the body a JSON object with an id
\*   ok_no_id         a success status, the body a JSON object without id
\*   ok_not_json      a success status, the body not JSON: response.json()
\*                    raises
Outcomes == {"transport_error", "error_status", "ok_id", "ok_no_id", "ok_not_json"}

PostId == "1_2"

\* line 89: result = response.json(), for the outcomes that have one
JsonBody(outcome) == IF outcome = "ok_id" THEN {<<"id", PostId>>} ELSE {}

\* lines 87-88 raise
RaisesRequestException(outcome) == outcome \in {"transport_error", "error_status"}

\* line 93: the except clause takes the exception of this attempt
Caught(outcome, json_is_request_exception) ==
    \/ RaisesRequestException(outcome)
    \/ outcome = "ok_not_json" /\ json_is_request_exception

\* lines 89-91: the try block runs to its return
Returns(outcome) == outcome \in {"ok_id", "ok_no_id"}

\* line 85: for attempt in range(1, max_retries + 1)
InRangeExclusive(a, retries) == a \in 1..(retries - 1)
InRange(a, retries) == a \in 1..retries

\* line 95: if attempt < max_retries
AttemptsRemain(a, retries) == a < retries

\* line 96: time.sleep(backoff * attempt)
SleepTimeConstant(unit, a) == unit
SleepTime(unit, a) == unit * a

\* lines 81-83
Payload(message, link) ==
    [message |-> message, published |-> "true", access_token |-> "token",
     link |-> IF link # None THEN {link} ELSE {}]

Returned(result) ==
    [kind |-> "returned", value |-> "dict", result |-> result, exc |-> None, at |-> 0]
\* the end of the function body is reached: Python returns None
ReturnedNone ==
    [kind |-> "returned", value |-> None, result |-> {}, exc |-> None, at |-> 0]
\* exception exc, of delivery attempt a, leaves the function
Raised(exc, a) ==
    [kind |-> "raised", value |-> None, result |-> {}, exc |-> exc, at |-> a]

\* line 85: the loop takes value a, or is over
LoopStep(a) ==
    IF InRange(a, max_retries)
    THEN /\ attempt' = a
         /\ pc' = "Pending"
         /\ pub' = pub
    ELSE /\ attempt' = attempt
         /\ pc' = "Terminal"
         /\ pub' = ReturnedNone

\* lines 79-85: the call begins
Call ==
    /\ pc = "call"
    /\ LoopStep(1)
    /\ UNCHANGED <<selectVars, max_retries, backoff, outcomes, sleeps, payload,
                   handlerVars, json_error_is_request_exception>>

\* lines 86-99: one delivery attempt and what follows it, to the sleep
Attempt ==
    /\ pc = "Pending"
    /\ \E outcome \in Outcomes :
         /\ outcomes' = Append(outcomes, outcome)
         /\ IF Returns(outcome)
            THEN /\ pub' = Returned(JsonBody(outcome))
                 /\ pc' = "Terminal"
                 /\ sleeps' = sleeps
            ELSE IF Caught(outcome, json_error_is_request_exception)
            THEN IF AttemptsRemain(attempt, max_retries)
                 THEN /\ sleeps' = Append(sleeps, SleepTime(backoff, attempt))
                      /\ pc' = "RetryWait"
                      /\ pub' = pub
                 ELSE /\ pub' = Raised("RequestException", attempt)
                      /\ pc' = "Terminal"
                      /\ sleeps' = sleeps
            ELSE /\ pub' = Raised("ValueError", attempt)
                 /\ pc' = "Terminal"
                 /\ sleeps' = sleeps
    /\ UNCHANGED <<selectVars, max_retries, backoff, attempt, payload,
                   handlerVars, json_error_is_request_exception>>

\* line 96 returns: the next iteration of the loop
Wake ==
    /\ pc = "RetryWait"
    /\ LoopStep(attempt + 1)
    /\ UNCHANGED <<selectVars, max_retries, backoff, outcomes, sleeps, payload,
                   handlerVars, json_error_is_request_exception>>

RetryValues == (0 - 1)..MaxRetries
Backoffs == (0..MaxBackoff) \cup {DefaultBackoff}

\* a direct call with a logger, as the handler's is (line 120)
InitPublish ==
    /\ database = <<>>
    /\ SelectIdle
    /\ HandlerIdle
    /\ max_retries \in RetryValues
    /\ backoff \in Backoffs
    /\ attempt = 0
    /\ outcomes = <<>>
    /\ sleeps = <<>>
    /\ payload = Payload(NoItem, None)
    /\ pub = NoOutcome
    /\ pc = "call"
    /\ json_error_is_request_exception \in BOOLEAN

NextPublish == Call \/ Attempt \/ Wake

SpecPublish == InitPublish /\ [][NextPublish]_vars

-----------------------------------------------------------------------------
(* create_post, lines 107-124: the handler of POST /post *)

\* lines 115-119: the f-string, kept as its parts
Message(it) ==
    [title |-> it.title, author |-> it.author,
     chapter_name |-> it.chapter_name, text |-> it.text, link |-> None]

\* line 124: HTTPException(status_code=500, detail=str(e))
ErrorResponse(exc) == [status |-> 500, body |-> {<<"detail", exc>>}]

\* lines 107-110: response_model=PostResponse, post_id: str.  The framework
\* validates what the handler returned, outside the handler's try block; a
\* value that is no PostResponse is answered 500 without the detail body.
IsPostResponse(content) == Get(content, "post_id") # None

ValidationFailure == [status |-> 500, body |-> {<<"text", "Internal Server Error">>}]

\* the databases the process may have loaded (line 105): any JSON array
NoChapters == Book([k \in {} |-> Chapter(<<>>)])
OneChapter == Book([k \in {"ch1"} |-> Chapter(ShortText)])
TwoChapters ==
    Book([k \in {"ch1", "ch2"} |-> Chapter(IF k = "ch1" THEN LongText ELSE <<>>)])

HandlerDatabases ==
    {<<>>, <<NoChapters>>, <<OneChapter>>, <<TwoChapters>>,
     <<OneChapter, NoChapters>>, <<OneChapter, TwoChapters>>}

Init ==
    /\ database \in HandlerDatabases
    /\ SelectIdle
    /\ PublishIdle
    /\ HandlerIdle
    /\ pc = "idle"
    /\ json_error_is_request_exception \in BOOLEAN

\* lines 113-120: selection succeeds and the publisher is called
CreatePost ==
    /\ pc = "idle"
    /\ get_random_chapter("call")
    /\ payload' = Payload(Message(item'), item'.link)
    /\ max_retries' = DefaultMaxRetries
    /\ backoff' = DefaultBackoff
    /\ attempt' = 0
    /\ outcomes' = <<>>
    /\ sleeps' = <<>>
    /\ pub' = NoOutcome
    /\ publisher_calls' = publisher_calls + 1
    /\ UNCHANGED <<database, response, requests_served,
                   json_error_is_request_exception>>

\* lines 114, 122-124: random.choice raises IndexError in get_random_chapter
CreatePostSelectionError ==
    /\ pc = "idle"
    /\ \/ ~CanSelect(database)
       \/ \E b \in 1..Len(database) : ~HasChapters(database[b])
    /\ response' = ErrorResponse("IndexError")
    /\ requests_served' = requests_served + 1
    /\ pc' = "responded"
    /\ UNCHANGED <<selectVars, publishVars, publisher_calls,
                   json_error_is_request_exception>>

\* lines 120-124 once post_to_facebook has ended, and the framework's
\* validation of the returned value
Respond ==
    /\ pc = "Terminal"
    /\ response' =
         IF pub.kind = "raised" THEN ErrorResponse(pub.exc)
         ELSE IF pub.value = None THEN ErrorResponse("AttributeError")
         ELSE LET content == {<<"post_id", Get(pub.result, "id")>>}
              IN  IF IsPostResponse(content)
                  THEN [status |-> 200, body |-> content]
                  ELSE ValidationFailure
    /\ requests_served' = requests_served + 1
    /\ pc' = "responded"
    /\ UNCHANGED <<selectVars, publishVars, publisher_calls,
                   json_error_is_request_exception>>

\* the next request arrives; nothing of the last one is kept
NewRequest ==
    /\ pc = "responded"
    /\ requests_served < MaxRequests
    /\ full_text' = <<>>
    /\ excerpt' = <<>>
    /\ item' = NoItem
    /\ max_retries' = DefaultMaxRetries
    /\ backoff' = DefaultBackoff
    /\ attempt' = 0
    /\ outcomes' = <<>>
    /\ sleeps' = <<>>
    /\ payload' = NoPayload
    /\ pub' = NoOutcome
    /\ response' = NoResponse
    /\ publisher_calls' = 0
    /\ pc' = "idle"
    /\ UNCHANGED <<database, requests_served, json_error_is_request_exception>>

Next ==
    \/ CreatePost
    \/ CreatePostSelectionError
    \/ Call
    \/ Attempt
    \/ Wake
    \/ Respond
    \/ NewRequest

Spec == Init /\ [][Next]_vars

-----------------------------------------------------------------------------
(* Vocabulary of the properties, stated apart from the operators above *)

IsSpace(c) == c = " " \/ c = "\n"

\* r is s with its trailing whitespace stripped
IsStrippedOf(r, s) ==
    /\ Len(r) <= Len(s)
    /\ r = SubSeq(s, 1, Len(r))
    /\ r = <<>> \/ ~IsSpace(r[Len(r)])
    /\ \A i \in (Len(r) + 1)..Len(s) : IsSpace(s[i])

\* the 1-based positions of the periods of s
Periods(s) == {i \in 1..Len(s) : s[i] = "."}
IsLastPeriod(s, i) == i \in Periods(s) /\ \A j \in Periods(s) : j <= i

\* the first min(2000, len) characters
First2000(s) == IF Len(s) <= 2000 THEN s ELSE SubSeq(s, 1, 2000)

Selected == pc = "selected"

FailedDelivery(o) == o = "transport_error" \/ o = "error_status"
SuccessStatus(o) == o = "ok_id" \/ o = "ok_no_id" \/ o = "ok_not_json"
AllAttemptsFail == \A i \in 1..Len(outcomes) : FailedDelivery(outcomes[i])

-----------------------------------------------------------------------------
(* Publisher *)

\* C1: with max_retries >= 1 and every delivery attempt failing, a call
\* makes exactly max_retries attempts and then raises the request error; it
\* never returns, never makes another attempt, and never stops before.
C1_ExactlyMaxRetriesThenError ==
    (max_retries >= 1 /\ AllAttemptsFail) =>
        /\ Len(outcomes) <= max_retries
        /\ pub.kind # "returned"
        /\ pc = "Terminal" =>
              /\ Len(outcomes) = max_retries
              /\ pub.kind = "raised"
              /\ pub.exc = "RequestException"
        /\ pc # "Terminal" => ENABLED NextPublish

C1_Witness ==
    /\ pc = "Terminal"
    /\ max_retries = 3
    /\ Len(outcomes) = 3
    /\ AllAttemptsFail
    /\ pub.kind = "raised"

FailsThenSucceeds ==
    /\ Len(outcomes) >= 1
    /\ outcomes[Len(outcomes)] = "ok_id"
    /\ \A i \in 1..(Len(outcomes) - 1) : FailedDelivery(outcomes[i])

\* C2: when attempts 1..k fail and attempt k+1 succeeds, the call returns
\* the success result after those k+1 attempts, having slept exactly k
\* times, backoff * i after failed attempt i and before attempt i+1.
C2_BackoffThenSuccess ==
    /\ FailsThenSucceeds =>
          /\ pc = "Terminal"
          /\ pub.kind = "returned"
          /\ pub.value = "dict"
          /\ pub.result = {<<"id", PostId>>}
          /\ Len(outcomes) <= max_retries
          /\ sleeps = [i \in 1..(Len(outcomes) - 1) |-> backoff * i]
    /\ (AllAttemptsFail /\ pc = "RetryWait") =>
          /\ attempt = Len(outcomes)
          /\ sleeps = [i \in 1..Len(outcomes) |-> backoff * i]
    /\ (AllAttemptsFail /\ pc = "Pending") =>
          /\ attempt = Len(outcomes) + 1
          /\ sleeps = [i \in 1..Len(outcomes) |-> backoff * i]

C2_Witness ==
    /\ max_retries = 3
    /\ backoff = 5
    /\ outcomes = <<"transport_error", "error_status", "ok_id">>
    /\ sleeps = <<5, 10>>
    /\ pc = "Terminal"
    /\ pub.kind = "returned"

\* C8: for every integer max_retries and every transport, a call moves
\* through Pending and RetryWait only and ends either returning a result
\* dict (Success) or raising the request error (Failed), with at most
\* max_retries - 1 waits and none after the final failed attempt.
C8_TwoTerminalOutcomes ==
    /\ pc \in {"call", "Pending", "RetryWait", "Terminal"}
    /\ pc = "Terminal" =>
          /\ \/ pub.kind = "returned" /\ pub.value = "dict"
             \/ pub.kind = "raised" /\ pub.exc = "RequestException"
          /\ Len(sleeps) <= max_retries - 1
          /\ Len(sleeps) < Len(outcomes)

\* C9: after an attempt answered with a success status the call makes no
\* further attempt and no further wait, so at most one attempt is accepted;
\* when all attempts fail the error raised is that of the last attempt.
C9_NoContinuationAfterSuccess ==
    /\ \A i \in 1..(Len(outcomes) - 1) : ~SuccessStatus(outcomes[i])
    /\ (Len(outcomes) >= 1 /\ SuccessStatus(outcomes[Len(outcomes)])) =>
          pc = "Terminal"
    /\ Cardinality({i \in 1..Len(outcomes) : SuccessStatus(outcomes[i])}) <= 1
    /\ (pc = "Terminal" /\ pub.kind = "raised" /\ AllAttemptsFail) =>
          pub.at = Len(outcomes)

-----------------------------------------------------------------------------
(* Excerpt selector *)

\* C3, as claimed: a text of at most 2000 characters is returned with its
\* trailing whitespace stripped and nothing appended.
C3_ShortTextStrippedOnly ==
    (Selected /\ Len(full_text) <= 2000) =>
        /\ IsStrippedOf(item.text, full_text)
        /\ item.text = excerpt

EndsInSpace(s) == s # <<>> /\ IsSpace(s[Len(s)])

\* the last period of s, if any, is its final character or lies before its
\* final 200 characters
LastPeriodFinalOrEarly(s) ==
    \A i \in Periods(s) : IsLastPeriod(s, i) => (i = Len(s) \/ i <= Len(s) - 200)

\* the last period of s lies within its final 199 characters and is not its
\* final character
LastPeriodInsideEnd(s) ==
    \E i \in Periods(s) : IsLastPeriod(s, i) /\ i > Len(s) - 199 /\ i < Len(s)

\* C3, amended: a text of at most 2000 characters that does not end in
\* whitespace and whose last period, if any, is its final character or lies
\* before its final 200 characters is returned unchanged, nothing stripped
\* and nothing appended; one that ends in whitespace, or that goes on after
\* a last period within its final 199 characters, is returned as a strictly
\* shorter excerpt followed by '...'.
C3_ShortTextUnchangedWhenNothingToCut ==
    (Selected /\ Len(full_text) <= 2000) =>
        /\ (~EndsInSpace(full_text) /\ LastPeriodFinalOrEarly(full_text)) =>
              /\ item.text = full_text
              /\ item.text = excerpt
              /\ IsStrippedOf(item.text, full_text)
        /\ (EndsInSpace(full_text) \/ LastPeriodInsideEnd(full_text)) =>
              /\ Len(excerpt) < Len(full_text)
              /\ item.text = excerpt \o <<".", ".", ".">>

C3_Witness ==
    /\ Selected
    /\ Len(full_text) <= 2000
    /\ Len(full_text) >= 200
    /\ Periods(full_text) # {}
    /\ ~EndsInSpace(full_text)
    /\ LastPeriodFinalOrEarly(full_text)
    /\ item.text = full_text

\* C4: when the last period of the candidate lies within its final 200
\* characters, the first of them included, the excerpt is the candidate up
\* to and including that period; otherwise it is the candidate with its
\* trailing whitespace stripped.
C4_CutAtPeriodInLast200 ==
    Selected =>
        LET cand == First2000(full_text)
        IN  IF \E i \in Periods(cand) :
                   IsLastPeriod(cand, i) /\ i > Len(cand) - 200
            THEN \E i \in Periods(cand) :
                   /\ IsLastPeriod(cand, i)
                   /\ excerpt = SubSeq(cand, 1, i)
            ELSE IsStrippedOf(excerpt, cand)

\* C5: the returned text has at most 2003 characters.
C5_TextAtMost2003 == Selected => Len(item.text) <= 2003

C5_Witness == Selected /\ Len(item.text) = 2003

\* C10: '...' is appended exactly when the full text is strictly longer
\* than the excerpt; the excerpt is a prefix of the full text; the empty
\* text yields the empty text; and with no period among the first 2000
\* characters the excerpt is the stripped candidate.
C10_EllipsisIffShortened ==
    Selected =>
        /\ Len(excerpt) <= Len(full_text)
        /\ excerpt = SubSeq(full_text, 1, Len(excerpt))
        /\ IF Len(full_text) > Len(excerpt)
           THEN /\ Len(item.text) = Len(excerpt) + 3
                /\ SubSeq(item.text, 1, Len(excerpt)) = excerpt
                /\ SubSeq(item.text, Len(excerpt) + 1, Len(excerpt) + 3)
                      = <<".", ".", ".">>
           ELSE item.text = full_text
        /\ full_text = <<>> => item.text = <<>>
        /\ Periods(First2000(full_text)) = {} =>
              IsStrippedOf(excerpt, First2000(full_text))

C10_Witness ==
    /\ Selected
    /\ Len(full_text) > 2000
    /\ Periods(full_text) # {}
    /\ Periods(First2000(full_text)) = {}
    /\ Len(item.text) = Len(excerpt) + 3
    /\ Len(full_text) > Len(excerpt)

-----------------------------------------------------------------------------
(* Request handler *)

Responded == pc = "responded"
SelectionSucceeded == item # NoItem

\* C6: a request ends with status 200 and the remote post id as a string
\* when selection and publish both succeeded, and with status 500 and the
\* error's description otherwise; the publisher is called at most once, and
\* only after selection succeeded.
C6_TwoResponses ==
    /\ publisher_calls <= 1
    /\ publisher_calls = 1 => SelectionSucceeded
    /\ Responded =>
          IF SelectionSucceeded /\ pub.kind = "returned"
          THEN /\ response.status = 200
               /\ Get(response.body, "post_id") = Get(pub.result, "id")
               /\ Get(response.body, "post_id") # None
          ELSE /\ response.status = 500
               /\ Get(response.body, "detail") # None

\* C7: a request answered with status 500 had no delivery attempt answered
\* by the remote end with a success status.
C7_NoPartialSuccess ==
    (Responded /\ response.status = 500) =>
        \A i \in 1..Len(outcomes) : ~SuccessStatus(outcomes[i])

=============================================================================
